---- MODULE Spec2Model ----
(***************************************************************************)
(* DecomposableAttentionClassificationModel (model/decom_classification.py) *)
(* as a state machine.                                                      *)
(*                                                                          *)
(* The class declares a TensorFlow 1.x graph.  The state is the graph's     *)
(* variables (the trainable variables, the Adam slots and the global_step   *)
(* counter); the only operation is Session.run(fetches, feed), which        *)
(* executes the ops the fetches need, every op after its inputs and its     *)
(* control inputs.  The forward pass is a pure function of the variables    *)
(* and the feed and is modelled by operators.                               *)
(*                                                                          *)
(* Real numbers are fixed-point integers: a gradient component g stands for *)
(* g / GradUnit, a variable or Adam moment x for x / FP.                    *)
(***************************************************************************)
EXTENDS Integers, Sequences, FiniteSets, TLC

\* ------------------------------------------------------------- bounds
\* training steps the model follows before train_op is no longer fetched
MaxSteps == 2
\* largest padded length (max_time) of a fed sentence
MaxTime == 2
\* largest config['data']['num_category']
MaxCategory == 3
\* gradient fixed point: the integer GradUnit is the real 1.0
GradUnit == 2
\* fixed point of variables and optimizer arithmetic: FP is the real 1.0
FP == 1000

VARIABLES
    var_values,     \* trainable variable -> tensor (tf.trainable_variables())
    adam,           \* AdamOptimizer state: slots m, v and the beta powers
    train_step,     \* the global_step variable
    session,        \* "idle" or "running" (inside one Session.run)
    fetches,        \* the fetches of the current run
    is_training,    \* the is_training placeholder's fed value
    executed,       \* ops of the graph already executed in the current run
    grads,          \* opt.compute_gradients' result: (grad, var) pairs
    grads_vars,     \* the list after the clipping loop, handed to the optimizer
    completed,      \* number of train_op executions so far
    enc,            \* the encoder's tensors for the fed batch (or NoBatch)
    viz,            \* the attention tensors and their recorded summaries
    cls             \* the classifier's tensors: logits, loss, inference

vars == <<var_values, adam, train_step, session, fetches, is_training,
          executed, grads, grads_vars, completed, enc, viz, cls>>

\* the value of enc, viz and cls while no batch is fed
NoBatch == <<>>

forward_vars == <<enc, viz, cls>>

run_vars == <<session, fetches, is_training, executed, grads, grads_vars>>

\* ------------------------------------------------------------ helpers
Max(a, b) == IF a >= b THEN a ELSE b

RECURSIVE SumSeq(_)
SumSeq(s) == IF s = <<>> THEN 0 ELSE Head(s) + SumSeq(Tail(s))

\* floor of the square root, by bisection on [lo, hi]
RECURSIVE SqrtBetween(_, _, _)
SqrtBetween(n, lo, hi) ==
    IF lo >= hi THEN lo
    ELSE LET mid == (lo + hi + 1) \div 2
         IN  IF mid * mid <= n THEN SqrtBetween(n, mid, hi)
                               ELSE SqrtBetween(n, lo, mid - 1)

ISqrt(n) == SqrtBetween(n, 0, 46340)

\* tf.reduce_sum(values * values)
L2Sum(t) == SumSeq([i \in 1..Len(t) |-> t[i] * t[i]])

\* ------------------------------------------------- the trainable variables
\* config['training']['learning_rate'], here 0.1
learning_rate == FP \div 10

\* tf.trainable_variables(): the embedding table and the two GRU cells
TrainVars == <<"word_embedding", "forward_cell", "backward_cell">>

VarNames == {TrainVars[j] : j \in 1..Len(TrainVars)}

InitialValues ==
    [v \in VarNames |->
        CASE v = "word_embedding" -> <<FP \div 2, -(FP \div 4)>>
          [] v = "forward_cell"   -> <<FP \div 5>>
          [] v = "backward_cell"  -> <<-(FP \div 5)>>]

Dim(v) == Len(InitialValues[v])

\* ------------------------------------------------------ gradient inputs
\* opt.compute_gradients(loss, train_variables) is a function of the
\* variables and the fed batch; the model draws it from four assignments
\* that give every variable a zero gradient, a gradient of norm below 1.0,
\* of norm exactly 1.0 and of norm above 1.0.
GradChoices == 0..3

GradTensor(k, d) ==
    [i \in 1..d |->
        CASE k = 0 -> 0
          [] k = 1 -> 1
          [] k = 2 -> IF i = 1 THEN GradUnit ELSE 0
          [] k = 3 -> IF i = 1 THEN -(2 * GradUnit) ELSE 1]

ComputeGradients(a) ==
    [j \in 1..Len(TrainVars) |->
        [grad |-> GradTensor((a + j) % 4, Dim(TrainVars[j])),
         var  |-> TrainVars[j]]]

\* ------------------------------------------------------ gradient clipping
\* the clip_norm argument 1.0 of tf.clip_by_norm(grad, 1.0)
clip_norm == GradUnit

\* tf.clip_by_norm(t, clip_norm): t * clip_norm / max(l2norm(t), clip_norm).
\* The result is kept exact as the pair (values, denom2), standing for the
\* tensor values / sqrt(denom2), with denom2 = max(l2norm, clip_norm)^2.
ClipByValue(t, c) ==
    [values |-> [i \in 1..Len(t) |->
                    c * (IF t[i] > c THEN c ELSE IF t[i] < -c THEN -c ELSE t[i])],
     denom2 |-> c * c]

ClipByNorm(t, c) ==
    [values |-> [i \in 1..Len(t) |-> t[i] * c],
     denom2 |-> Max(L2Sum(t), c * c)]

\* tf.clip_by_global_norm over the whole list: one joint scale
ClipByGlobalNorm(gv) ==
    LET joint == SumSeq([i \in 1..Len(gv) |-> L2Sum(gv[i].grad)])
    IN  [i \in 1..Len(gv) |->
            [grad |-> [values |-> [k \in 1..Len(gv[i].grad) |->
                                      gv[i].grad[k] * clip_norm],
                       denom2 |-> Max(joint, clip_norm * clip_norm)],
             var  |-> gv[i].var]]

\* for i, (grad, var) in enumerate(grads_vars):
\*     grads_vars[i] = (tf.clip_by_norm(grad, 1.0), var)
ClipLoop(gv) ==
    [i \in 1..Len(gv) |->
        [grad |-> ClipByNorm(gv[i].grad, clip_norm), var |-> gv[i].var]]

\* ------------------------------------------------------------ optimizer
\* tf.train.AdamOptimizer(learning_rate=lr): beta1 = 0.9, beta2 = 0.999;
\* epsilon = 1e-8 is below the fixed point's resolution and is one unit.
AdamHyper == [beta1 |-> <<9, 10>>, beta2 |-> <<999, 1000>>, epsilon |-> 1]

InitialAdam ==
    [m |-> [v \in VarNames |-> [i \in 1..Dim(v) |-> 0]],
     v |-> [v \in VarNames |-> [i \in 1..Dim(v) |-> 0]],
     beta1_power |-> (AdamHyper.beta1[1] * FP) \div AdamHyper.beta1[2],
     beta2_power |-> (AdamHyper.beta2[1] * FP) \div AdamHyper.beta2[2]]

\* the clipped gradient values / sqrt(denom2), in units of 1/FP
GradValue(c) ==
    [i \in 1..Len(c.values) |->
        (c.values[i] * FP * FP) \div (ISqrt(c.denom2 * FP * FP) * GradUnit)]

\* the gradient handed to the optimizer for variable v
GradOf(gv, v) ==
    LET i == CHOOSE k \in 1..Len(gv) : gv[k].var = v IN GradValue(gv[i].grad)

\* Adam's step on every variable of the list (apply_gradients):
\*   lr_t = lr * sqrt(1 - beta2_power) / (1 - beta1_power)
\*   m = beta1 * m + (1 - beta1) * g;  v = beta2 * v + (1 - beta2) * g * g
\*   var = var - lr_t * m / (sqrt(v) + epsilon)
\* and then the beta powers are multiplied by beta1 and beta2.
AdamLr(a) ==
    (learning_rate * ISqrt((FP - a.beta2_power) * FP)) \div (FP - a.beta1_power)

AdamM(a, gv, v) ==
    LET b == AdamHyper.beta1  g == GradOf(gv, v)
    IN  [i \in 1..Dim(v) |-> (b[1] * a.m[v][i] + (b[2] - b[1]) * g[i]) \div b[2]]

AdamV(a, gv, v) ==
    LET b == AdamHyper.beta2  g == GradOf(gv, v)
    IN  [i \in 1..Dim(v) |->
            (b[1] * a.v[v][i] + (b[2] - b[1]) * g[i] * g[i]) \div b[2]]

AdamVar(vals, a, gv, v) ==
    LET m == AdamM(a, gv, v)  vv == AdamV(a, gv, v)
    IN  [i \in 1..Dim(v) |->
            vals[v][i] - ((AdamLr(a) * m[i]) \div (ISqrt(vv[i]) + AdamHyper.epsilon))]

Updated(gv) == {gv[i].var : i \in 1..Len(gv)}

ApplyAdamVars(vals, a, gv) ==
    [v \in VarNames |-> IF v \in Updated(gv) THEN AdamVar(vals, a, gv, v) ELSE vals[v]]

ApplyAdamSlots(a, gv) ==
    [m |-> [v \in VarNames |-> IF v \in Updated(gv) THEN AdamM(a, gv, v) ELSE a.m[v]],
     v |-> [v \in VarNames |-> IF v \in Updated(gv) THEN AdamV(a, gv, v) ELSE a.v[v]],
     beta1_power |-> (a.beta1_power * AdamHyper.beta1[1]) \div AdamHyper.beta1[2],
     beta2_power |-> (a.beta2_power * AdamHyper.beta2[1]) \div AdamHyper.beta2[2]]

\* ---------------------------------------------------------- the graph
\* what Session.run can fetch: self.loss, self.inference_probs,
\* self.inference, self.train_op, self.summary_op
Fetchable == {"loss", "inference_probs", "inference", "train_op", "summary_op"}

Ops == Fetchable \cup {"result", "compute_gradients", "clip_by_norm",
                       "apply_adam", "apply_gradient_op"}

\* with tf.control_dependencies([apply_gradient_op]): train_op = tf.no_op()
NoControlInputs(op) == {}

ControlInputs(op) == IF op = "train_op" THEN {"apply_gradient_op"} ELSE {}

\* a loss built under the optimizer step's control dependency
DataInputsLossAfterStep(op) ==
    CASE op = "result"            -> {}
      [] op = "loss"              -> {"result", "apply_gradient_op"}
      [] op = "inference_probs"   -> {"result"}
      [] op = "inference"         -> {"inference_probs"}
      [] op = "summary_op"        -> {"loss", "result"}
      [] op = "compute_gradients" -> {"result"}
      [] op = "clip_by_norm"      -> {"compute_gradients"}
      [] op = "apply_adam"        -> {"clip_by_norm"}
      [] op = "apply_gradient_op" -> {"apply_adam"}
      [] op = "train_op"          -> {}

\* the data inputs of each op: result (the logits) is the forward pass;
\* loss, inference_probs and the summaries read it; the gradients are of the
\* loss; apply_gradients updates the variables with the clipped list and
\* then increments global_step (apply_gradient_op).
DataInputs(op) ==
    CASE op = "result"            -> {}
      [] op = "loss"              -> {"result"}
      [] op = "inference_probs"   -> {"result"}
      [] op = "inference"         -> {"inference_probs"}
      [] op = "summary_op"        -> {"loss", "result"}
      [] op = "compute_gradients" -> {"loss"}
      [] op = "clip_by_norm"      -> {"compute_gradients"}
      [] op = "apply_adam"        -> {"clip_by_norm"}
      [] op = "apply_gradient_op" -> {"apply_adam"}
      [] op = "train_op"          -> {}

Inputs(op) == DataInputs(op) \cup ControlInputs(op)

\* the ops a run executes: the fetches and everything they depend on
RECURSIVE Closure(_)
Closure(S) ==
    LET T == S \cup UNION {Inputs(op) : op \in S}
    IN  IF T = S THEN S ELSE Closure(T)

Needed(f) == Closure(f)

FetchSets == (SUBSET Fetchable) \ {{}}

\* ------------------------------------------------------------- actions
Init ==
    /\ var_values = InitialValues
    /\ adam = InitialAdam
    /\ train_step = 0
    /\ session = "idle"
    /\ fetches = {}
    /\ is_training = FALSE
    /\ executed = {}
    /\ grads = <<>>
    /\ grads_vars = <<>>
    /\ completed = 0
    /\ enc = NoBatch
    /\ viz = NoBatch
    /\ cls = NoBatch

Ready(op) ==
    /\ session = "running"
    /\ op \in Needed(fetches) \ executed
    /\ Inputs(op) \subseteq executed

\* sess.run(fetches, feed_dict={..., is_training: flag})
StartRun(f, flag) ==
    /\ session = "idle"
    /\ "train_op" \in f => train_step < MaxSteps
    /\ session' = "running"
    /\ fetches' = f
    /\ is_training' = flag
    /\ executed' = {}
    /\ grads' = <<>>
    /\ grads_vars' = <<>>
    /\ UNCHANGED forward_vars
    /\ UNCHANGED <<var_values, adam, train_step, completed>>

\* the forward pass, the loss and the outputs: they read the variables
RunForward(op) ==
    /\ op \in {"result", "loss", "inference_probs", "inference", "summary_op"}
    /\ Ready(op)
    /\ executed' = executed \cup {op}
    /\ UNCHANGED forward_vars
    /\ UNCHANGED <<var_values, adam, train_step, session, fetches, is_training,
                   grads, grads_vars, completed>>

\* grads_vars = opt.compute_gradients(loss, train_variables)
RunComputeGradients(a) ==
    /\ Ready("compute_gradients")
    /\ executed' = executed \cup {"compute_gradients"}
    /\ grads' = ComputeGradients(a)
    /\ UNCHANGED forward_vars
    /\ UNCHANGED <<var_values, adam, train_step, session, fetches, is_training,
                   grads_vars, completed>>

RunClip ==
    /\ Ready("clip_by_norm")
    /\ executed' = executed \cup {"clip_by_norm"}
    /\ grads_vars' = ClipLoop(grads)
    /\ UNCHANGED forward_vars
    /\ UNCHANGED <<var_values, adam, train_step, session, fetches, is_training,
                   grads, completed>>

\* opt.apply_gradients(grads_vars, global_step=train_step): the updates ...
RunApplyAdam ==
    /\ Ready("apply_adam")
    /\ executed' = executed \cup {"apply_adam"}
    /\ var_values' = ApplyAdamVars(var_values, adam, grads_vars)
    /\ adam' = ApplyAdamSlots(adam, grads_vars)
    /\ UNCHANGED forward_vars
    /\ UNCHANGED <<train_step, session, fetches, is_training, grads,
                   grads_vars, completed>>

\* ... and then the increment of global_step
RunApplyGradientOp ==
    /\ Ready("apply_gradient_op")
    /\ executed' = executed \cup {"apply_gradient_op"}
    /\ train_step' = train_step + 1
    /\ UNCHANGED forward_vars
    /\ UNCHANGED <<var_values, adam, session, fetches, is_training, grads,
                   grads_vars, completed>>

\* train_op = tf.no_op(name='train_step')
RunTrainOp ==
    /\ Ready("train_op")
    /\ executed' = executed \cup {"train_op"}
    /\ completed' = completed + 1
    /\ UNCHANGED forward_vars
    /\ UNCHANGED <<var_values, adam, train_step, session, fetches, is_training,
                   grads, grads_vars>>

\* Session.run returns once every needed op has run
FinishRun ==
    /\ session = "running"
    /\ Needed(fetches) \subseteq executed
    /\ session' = "idle"
    /\ UNCHANGED forward_vars
    /\ UNCHANGED <<var_values, adam, train_step, fetches, is_training, executed,
                   grads, grads_vars, completed>>

Next ==
    \/ \E f \in FetchSets, flag \in BOOLEAN : StartRun(f, flag)
    \/ \E op \in Ops : RunForward(op)
    \/ \E a \in GradChoices : RunComputeGradients(a)
    \/ RunClip
    \/ RunApplyAdam
    \/ RunApplyGradientOp
    \/ RunTrainOp
    \/ FinishRun

Spec == Init /\ [][Next]_vars

\* ================================================ training properties
\* the real tensor c.values / sqrt(c.denom2) has norm at most clip_norm
NormAtMostClip(c) == L2Sum(c.values) <= clip_norm * clip_norm * c.denom2

\* ... has norm exactly clip_norm
NormIsClip(c) == L2Sum(c.values) = clip_norm * clip_norm * c.denom2

\* ... is the tensor t itself
SameTensor(c, t) ==
    /\ Len(c.values) = Len(t)
    /\ \A i \in 1..Len(t) :
          /\ c.values[i] * c.values[i] = t[i] * t[i] * c.denom2
          /\ c.values[i] * t[i] >= 0

\* ... is a positive multiple of the tensor t
SameDirection(c, t) ==
    /\ Len(c.values) = Len(t)
    /\ \A i, k \in 1..Len(t) : c.values[i] * t[k] = c.values[k] * t[i]
    /\ \A i \in 1..Len(t) : c.values[i] * t[i] >= 0
    /\ \A i \in 1..Len(t) : t[i] # 0 => c.values[i] # 0

Clipped == "clip_by_norm" \in executed

JointL2Sum == SumSeq([i \in 1..Len(grads) |-> L2Sum(grads[i].grad)])

\* C1: an evaluation that does not execute train_op (its fetches are among
\* loss, inference_probs, inference and summary_op) leaves every trainable
\* variable and the step counter as they were.
C1_OnlyTrainOpMutates ==
    [][("train_op" \notin Needed(fetches'))
          => (var_values' = var_values /\ train_step' = train_step)]_vars

\* a run without train_op has finished, after training has changed the variables
C1_Witness ==
    /\ session = "idle"
    /\ "train_op" \notin fetches
    /\ {"loss", "inference", "summary_op"} \subseteq executed
    /\ train_step > 0
    /\ var_values # InitialValues

\* C2 as stated: in a call fed is_training = false no variable is updated and
\* the step counter does not change.
C2_FlagGatesUpdate ==
    [][(is_training' = FALSE)
          => (var_values' = var_values /\ train_step' = train_step)]_vars

\* C2 amended: the fed flag does not decide the update; the variables and the
\* step counter change only in a run that executes train_op, with either
\* flag value, and a run fed is_training = false that does not execute
\* train_op changes neither.
C2_UpdateOnlyWithTrainOp ==
    [][(var_values' # var_values \/ train_step' # train_step \/ adam' # adam)
          => (/\ session = "running"
              /\ "train_op" \in fetches
              /\ is_training' = is_training)]_vars

\* a run fed is_training = false without train_op has finished and left the
\* trained variables alone; the step counter equals the completed steps
C2_Witness ==
    /\ session = "idle"
    /\ is_training = FALSE
    /\ "train_op" \notin fetches
    /\ "inference_probs" \in executed
    /\ train_step = completed
    /\ train_step > 0

\* C3: every gradient of the list handed to the optimizer has norm at most
\* 1.0; a gradient of norm at most 1.0 is handed over unchanged, a larger
\* one is rescaled to norm 1.0 in its own direction.
C3_ClippedNorm ==
    Clipped =>
        /\ Len(grads_vars) = Len(grads)
        /\ \A i \in 1..Len(grads) :
              LET g == grads[i].grad  c == grads_vars[i].grad
              IN  /\ grads_vars[i].var = grads[i].var
                  /\ NormAtMostClip(c)
                  /\ L2Sum(g) <= clip_norm * clip_norm => SameTensor(c, g)
                  /\ L2Sum(g) > clip_norm * clip_norm
                        => (NormIsClip(c) /\ SameDirection(c, g))

\* the optimizer has applied a list with a rescaled and an unchanged gradient
C3_Witness ==
    /\ "apply_adam" \in executed
    /\ \E i \in 1..Len(grads) : L2Sum(grads[i].grad) > clip_norm * clip_norm
    /\ \E i \in 1..Len(grads) :
          /\ L2Sum(grads[i].grad) > 0
          /\ L2Sum(grads[i].grad) < clip_norm * clip_norm

\* C4: the clip is per tensor: whenever the joint norm over all gradients
\* exceeds 1.0, a gradient whose own norm is at most 1.0 is still handed over
\* unchanged, and a gradient whose own norm exceeds 1.0 is scaled by its own
\* norm alone.
C4_PerTensorClip ==
    (Clipped /\ JointL2Sum > clip_norm * clip_norm) =>
        \A i \in 1..Len(grads) :
            LET g == grads[i].grad  c == grads_vars[i].grad
            IN  /\ L2Sum(g) <= clip_norm * clip_norm => SameTensor(c, g)
                /\ c.denom2 = Max(L2Sum(g), clip_norm * clip_norm)

\* every gradient has norm at most 1.0, one is not zero, the joint norm is above 1.0
C4_Witness ==
    /\ "apply_adam" \in executed
    /\ JointL2Sum > clip_norm * clip_norm
    /\ \A i \in 1..Len(grads) : L2Sum(grads[i].grad) <= clip_norm * clip_norm
    /\ \E i \in 1..Len(grads) :
          L2Sum(grads[i].grad) > 0 /\ SameTensor(grads_vars[i].grad, grads[i].grad)

\* C5: the step counter starts at 0, moves only upwards and by one, equals
\* the number of completed train_op executions between runs, and train_op
\* finishes only after the update has been applied and the counter incremented.
C5_StepCounter ==
    /\ train_step = 0
    /\ [](session = "idle" => train_step = completed)
    /\ []("train_op" \in executed
            => {"clip_by_norm", "apply_adam", "apply_gradient_op"} \subseteq executed)
    /\ [][train_step' = train_step \/ train_step' = train_step + 1]_vars
    /\ [][completed' # completed
            => (completed' = completed + 1 /\ train_step = completed')]_vars

\* two training steps have completed
C5_Witness ==
    /\ session = "idle"
    /\ "train_op" \in executed
    /\ completed = 2
    /\ train_step = 2

\* ======================================================= the encoder
\* token ids: the rows of the embedding table
Vocab == 0..(Dim("word_embedding") - 1)

\* a padded sentence of one example: max_time token ids and its true length
Sentences ==
    UNION {[ids : [1..T -> Vocab], length : 0..T] : T \in 1..MaxTime}

\* tf.nn.embedding_lookup(self._word_embedding, sentence)
EmbeddingLookup(table, ids) == [t \in 1..Len(ids) |-> table[ids[t] + 1]]

\* GRUCell(state_size) with state_size 1: the new state (and output) from the
\* input x and the state h.  The gates are the framework's; the cell is a
\* fixed mix h' = (h + c) / 2 of the state and the candidate c = w * (x + h).
GRUCell(w, x, h) == (h + (w * (x + h)) \div FP) \div 2

\* the cell's state after the first t inputs, from the zero state
RECURSIVE StateAfter(_, _, _)
StateAfter(w, xs, t) ==
    IF t = 0 THEN 0 ELSE GRUCell(w, xs[t], StateAfter(w, xs, t - 1))

\* tf.nn.dynamic_rnn with sequence_length: steps past the length emit zeros
\* and copy the state through
DynamicRnn(w, xs, length) ==
    [output |-> [t \in 1..Len(xs) |-> IF t <= length THEN StateAfter(w, xs, t) ELSE 0],
     state  |-> StateAfter(w, xs, length)]

\* tf.reverse_sequence: the first length elements reversed, the rest in place
ReverseSequence(xs, length) ==
    [t \in 1..Len(xs) |-> IF t <= length THEN xs[length - t + 1] ELSE xs[t]]

\* tf.nn.bidirectional_dynamic_rnn(fw_cell, bw_cell, inputs, sequence_length)
BidirectionalDynamicRnn(fw, bw, inputs, length) ==
    LET f == DynamicRnn(fw, inputs, length)
        b == DynamicRnn(bw, ReverseSequence(inputs, length), length)
    IN  [fw_output |-> f.output,
         bw_output |-> ReverseSequence(b.output, length),
         fw_final_state |-> f.state,
         bw_final_state |-> b.state]

\* _run_birnn without sequence_length: every step of the padded input is run
RunBirnnNoLengths(fw_cell, bw_cell, inputs, lengths) ==
    LET r == BidirectionalDynamicRnn(fw_cell, bw_cell, inputs, Len(inputs))
    IN  [output |-> [t \in 1..Len(inputs) |-> <<r.fw_output[t], r.bw_output[t]>>],
         state  |-> <<r.fw_final_state, r.bw_final_state>>]

\* _run_birnn: output = concat([fw_output, bw_output], 2),
\*             state = concat([fw_final_state, bw_final_state], 1)
RunBirnn(fw_cell, bw_cell, inputs, lengths) ==
    LET r == BidirectionalDynamicRnn(fw_cell, bw_cell, inputs, lengths)
    IN  [output |-> [t \in 1..Len(inputs) |-> <<r.fw_output[t], r.bw_output[t]>>],
         state  |-> <<r.fw_final_state, r.bw_final_state>>]

\* _build_rnn_encoder with the cells exchanged in the second tower
BuildRnnEncoderCellsSwapped(vals, sentence1, sentence2, sentence1_lengths, sentence2_lengths) ==
    LET forward_cell  == vals["forward_cell"][1]
        backward_cell == vals["backward_cell"][1]
        sentence1_embedding == EmbeddingLookup(vals["word_embedding"], sentence1)
        sentence2_embedding == EmbeddingLookup(vals["word_embedding"], sentence2)
    IN  [sentence1_embed |-> sentence1_embedding,
         sentence2_embed |-> sentence2_embedding,
         sentence1_rnned |-> RunBirnn(forward_cell, backward_cell,
                                      sentence1_embedding, sentence1_lengths).output,
         sentence2_rnned |-> RunBirnn(backward_cell, forward_cell,
                                      sentence2_embedding, sentence2_lengths).output]

\* _build_rnn_encoder: both sentences are looked up in the one embedding
\* table and run through the one forward cell and the one backward cell
BuildRnnEncoder(vals, sentence1, sentence2, sentence1_lengths, sentence2_lengths) ==
    LET forward_cell  == vals["forward_cell"][1]
        backward_cell == vals["backward_cell"][1]
        sentence1_embedding == EmbeddingLookup(vals["word_embedding"], sentence1)
        sentence2_embedding == EmbeddingLookup(vals["word_embedding"], sentence2)
    IN  [sentence1_embed |-> sentence1_embedding,
         sentence2_embed |-> sentence2_embedding,
         sentence1_rnned |-> RunBirnn(forward_cell, backward_cell,
                                      sentence1_embedding, sentence1_lengths).output,
         sentence2_rnned |-> RunBirnn(forward_cell, backward_cell,
                                      sentence2_embedding, sentence2_lengths).output]

\* the data pipeline pads a sentence with token id 0 beyond its length
Padded(s) == \A t \in (s.length + 1)..Len(s.ids) : s.ids[t] = 0

\* the encoder's tensors for a fed batch (one example per batch)
Encoded(vals, s1, s2) ==
    [sentence1 |-> s1.ids, sentence1_lengths |-> s1.length,
     sentence2 |-> s2.ids, sentence2_lengths |-> s2.length,
     out |-> BuildRnnEncoder(vals, s1.ids, s2.ids, s1.length, s2.length)]

\* one whole training run, sess.run(train_op): gradients, clipping, the
\* Adam update and the step counter
TrainBatch(a) ==
    /\ session = "idle"
    /\ enc = NoBatch
    /\ train_step < MaxSteps
    /\ LET gv == ClipLoop(ComputeGradients(a))
       IN  /\ var_values' = ApplyAdamVars(var_values, adam, gv)
           /\ adam' = ApplyAdamSlots(adam, gv)
    /\ train_step' = train_step + 1
    /\ completed' = completed + 1
    /\ UNCHANGED run_vars
    /\ UNCHANGED forward_vars

\* a run that evaluates the encoder on a fed batch
EncodeBatch(s1, s2) ==
    /\ session = "idle"
    /\ enc = NoBatch
    /\ Padded(s1) /\ Padded(s2)
    /\ enc' = Encoded(var_values, s1, s2)
    /\ UNCHANGED <<var_values, adam, train_step, completed, viz, cls>>
    /\ UNCHANGED run_vars

\* the same batch fed again with the token id at one padded position changed
RefeedPadding(which, pos, id) ==
    /\ enc # NoBatch
    /\ LET s1 == [ids |-> enc.sentence1, length |-> enc.sentence1_lengths]
           s2 == [ids |-> enc.sentence2, length |-> enc.sentence2_lengths]
           s  == IF which = 1 THEN s1 ELSE s2
           p  == [s EXCEPT !.ids[pos] = id]
       IN  /\ pos \in (s.length + 1)..Len(s.ids)
           /\ id # s.ids[pos]
           /\ enc' = Encoded(var_values, IF which = 1 THEN p ELSE s1,
                             IF which = 1 THEN s2 ELSE p)
    /\ UNCHANGED <<var_values, adam, train_step, completed, viz, cls>>
    /\ UNCHANGED run_vars

\* the batch's tensors are dropped when the run returns
ReleaseBatch ==
    /\ enc # NoBatch
    /\ enc' = NoBatch
    /\ UNCHANGED <<var_values, adam, train_step, completed, viz, cls>>
    /\ UNCHANGED run_vars

NextEncoder ==
    \/ \E a \in GradChoices : TrainBatch(a)
    \/ \E s1 \in Sentences, s2 \in Sentences : EncodeBatch(s1, s2)
    \/ \E which \in 1..2, pos \in 1..MaxTime, id \in Vocab : RefeedPadding(which, pos, id)
    \/ ReleaseBatch

SpecEncoder == Init /\ [][NextEncoder]_vars

\* the two feeds agree on both lengths and on every token below the lengths
AgreeOnValid(e, f) ==
    /\ e.sentence1_lengths = f.sentence1_lengths
    /\ e.sentence2_lengths = f.sentence2_lengths
    /\ Len(e.sentence1) = Len(f.sentence1)
    /\ Len(e.sentence2) = Len(f.sentence2)
    /\ \A t \in 1..e.sentence1_lengths : e.sentence1[t] = f.sentence1[t]
    /\ \A t \in 1..e.sentence2_lengths : e.sentence2[t] = f.sentence2[t]

\* C7: two batches that agree on the lengths and on every token below the
\* lengths, and differ at padded positions, have the same encoder outputs
\* (forward and backward vector) at every valid position.
C7_PaddingDoesNotLeak ==
    [][(/\ enc # NoBatch
        /\ enc' # NoBatch
        /\ var_values' = var_values
        /\ AgreeOnValid(enc, enc'))
          => (/\ \A t \in 1..enc.sentence1_lengths :
                    enc'.out.sentence1_rnned[t] = enc.out.sentence1_rnned[t]
              /\ \A t \in 1..enc.sentence2_lengths :
                    enc'.out.sentence2_rnned[t] = enc.out.sentence2_rnned[t])]_vars

\* after training, the padded token after a valid one has been changed from
\* the pad id and fed again; the valid position carries a forward and a
\* backward output
C7_Witness ==
    /\ enc # NoBatch
    /\ train_step > 0
    /\ enc.sentence1_lengths >= 1
    /\ enc.sentence1_lengths < Len(enc.sentence1)
    /\ enc.sentence1[enc.sentence1_lengths + 1] # 0
    /\ enc.out.sentence1_rnned[1][1] # 0
    /\ enc.out.sentence1_rnned[1][2] # 0

\* C9: the towers share the embedding table and the two cells: the same
\* padded token ids with the same length give the same embeddings and the
\* same encoder outputs as sentence1 and as sentence2, before and after
\* training steps.
C9_SharedTowers ==
    (/\ enc # NoBatch
     /\ enc.sentence1 = enc.sentence2
     /\ enc.sentence1_lengths = enc.sentence2_lengths)
        => (/\ enc.out.sentence1_embed = enc.out.sentence2_embed
            /\ enc.out.sentence1_rnned = enc.out.sentence2_rnned)

\* the same sentence in both towers after two training steps, with outputs
\* that tell the forward cell from the backward cell
C9_Witness ==
    /\ enc # NoBatch
    /\ train_step = 2
    /\ var_values # InitialValues
    /\ enc.sentence1 = enc.sentence2
    /\ enc.sentence1_lengths = enc.sentence2_lengths
    /\ enc.sentence1_lengths >= 2
    /\ enc.out.sentence1_rnned = enc.out.sentence2_rnned
    /\ enc.out.sentence1_rnned[1][1] # enc.out.sentence1_rnned[1][2]

\* ============================================== attention diagnostics
\* 2^n, the weight of a score of n before normalisation
RECURSIVE Pow2(_)
Pow2(n) == IF n <= 0 THEN 1 ELSE 2 * Pow2(n - 1)

\* per-token projections of an encoded sentence, from which the scores are made
Projections == 0..2

\* softmax of one row of scores over the first length columns; the columns
\* beyond the length get weight 0
MaskedSoftmax(row, length) ==
    LET total == SumSeq([k \in 1..length |-> Pow2(row[k])])
    IN  [j \in 1..Len(row) |->
            IF j <= length THEN (Pow2(row[j]) * FP) \div total ELSE 0]

\* decom_ops.attend: the score of token i of sentence1 and token j of
\* sentence2 is the product of their projections; att_weights1 has a row per
\* token of sentence1 and a column per token of sentence2 and is normalised
\* over the valid tokens of sentence2, att_weights2 the other way round.
Attend(p1, p2, sentence1_lengths, sentence2_lengths) ==
    [att_weights1 |->
        [i \in 1..Len(p1) |->
            MaskedSoftmax([j \in 1..Len(p2) |-> p1[i] * p2[j]], sentence2_lengths)],
     att_weights2 |->
        [j \in 1..Len(p2) |->
            MaskedSoftmax([i \in 1..Len(p1) |-> p1[i] * p2[j]], sentence1_lengths)]]

\* tf.sequence_mask(lengths, maxlen, dtype=tf.float32)
SequenceMask(lengths, maxlen) == [i \in 1..maxlen |-> IF i <= lengths THEN 1 ELSE 0]

\* _build_attention_viz(att_weight, att_name, lengths) for one example:
\*   mask = expand_dims(sequence_mask(lengths, maxlen=shape(att_weight)[1]), -1)
\*   att_weight = att_weight * mask
\* shape(att_weight)[1] is the number of rows, and the mask, expanded on the
\* last axis, is broadcast over the columns.  The histogram records the
\* masked weights, the image their cast(. * 255.0, uint8).
BuildAttentionViz(att_weight, att_name, lengths) ==
    LET mask == SequenceMask(lengths, Len(att_weight))
        masked == [i \in 1..Len(att_weight) |->
                      [j \in 1..Len(att_weight[i]) |-> att_weight[i][j] * mask[i]]]
    IN  [name |-> att_name,
         histogram |-> masked,
         image |-> [i \in 1..Len(masked) |->
                       [j \in 1..Len(masked[i]) |-> (masked[i][j] * 255) \div FP]]]

\* the attentions list of _build_graph and its loop
SummaryViz(att, sentence1_lengths, sentence2_lengths) ==
    LET attentions ==
            <<<<att.att_weights1, "attention_weight1", sentence2_lengths>>,
              <<att.att_weights2, "attention_weight2", sentence1_lengths>>>>
    IN  [k \in 1..Len(attentions) |->
            BuildAttentionViz(attentions[k][1], attentions[k][2], attentions[k][3])]

\* a run of summary_op on a batch whose sentences are padded to Len(p1) and
\* Len(p2) tokens and have at least one token each
RecordViz(p1, p2, l1, l2) ==
    /\ viz = NoBatch
    /\ l1 \in 1..Len(p1)
    /\ l2 \in 1..Len(p2)
    /\ LET att == Attend(p1, p2, l1, l2)
       IN  viz' = [projections1 |-> p1,
                   projections2 |-> p2,
                   sentence1_lengths |-> l1,
                   sentence2_lengths |-> l2,
                   att_weights1 |-> att.att_weights1,
                   att_weights2 |-> att.att_weights2,
                   summaries |-> SummaryViz(att, l1, l2)]
    /\ UNCHANGED <<var_values, adam, train_step, completed, enc, cls>>
    /\ UNCHANGED run_vars

ReleaseViz ==
    /\ viz # NoBatch
    /\ viz' = NoBatch
    /\ UNCHANGED <<var_values, adam, train_step, completed, enc, cls>>
    /\ UNCHANGED run_vars

ProjectedSentences == UNION {[1..T -> Projections] : T \in 1..MaxTime}

NextViz ==
    \/ \E p1 \in ProjectedSentences, p2 \in ProjectedSentences,
          l1 \in 1..MaxTime, l2 \in 1..MaxTime : RecordViz(p1, p2, l1, l2)
    \/ ReleaseViz

SpecViz == Init /\ [][NextViz]_vars

\* the recorded matrix is the weight matrix with the columns beyond the
\* length set to zero
MaskedByColumn(recorded, weights, length) ==
    /\ Len(recorded) = Len(weights)
    /\ \A i \in 1..Len(weights) :
          /\ Len(recorded[i]) = Len(weights[i])
          /\ \A j \in 1..Len(weights[i]) :
                recorded[i][j] = IF j <= length THEN weights[i][j] ELSE 0

Configs == [state_size : {1, 2}, num_category : 1..MaxCategory]

\* what the layers built before the loss have put in
\* tf.GraphKeys.REGULARIZATION_LOSSES: no term, one term or two
RegCollections == {<<>>, <<FP \div 50>>, <<FP \div 50, FP \div 200>>}

\* the values a unit of the classifier's last layer takes, in units of ln 2
LogitVals == {0, 1, 3}

BatchSizes == {1, 2}

\* compare_dim = state_size * 2;  mapper_num_layers=[compare_dim//2, num_category]
MapperNumLayers(config) ==
    LET compare_dim == config.state_size * 2
    IN  <<compare_dim \div 2, config.num_category>>

\* decom_ops.aggregate: a feed-forward classifier with one layer per entry of
\* mapper_num_layers; its output has as many units as the last entry, and
\* units(k) is the value of unit k of the last layer
Aggregate(mapper_num_layers, units) ==
    [k \in 1..mapper_num_layers[Len(mapper_num_layers)] |-> units[k]]

\* tf.nn.softmax(result) of one example, in units of 1/FP
Softmax(logits) ==
    LET total == SumSeq([k \in 1..Len(logits) |-> Pow2(logits[k])])
    IN  [k \in 1..Len(logits) |-> (Pow2(logits[k]) * FP) \div total]

\* an argmax that counts the categories from 1
ArgMaxFromOne(xs) ==
    CHOOSE i \in 1..Len(xs) :
        /\ \A k \in 1..Len(xs) : xs[k] <= xs[i]
        /\ \A k \in 1..(i - 1) : xs[k] < xs[i]

\* tf.argmax(self.inference_probs, axis=-1): the first index, from 0, of the
\* largest entry
ArgMax(xs) ==
    (CHOOSE i \in 1..Len(xs) :
        /\ \A k \in 1..Len(xs) : xs[k] <= xs[i]
        /\ \A k \in 1..(i - 1) : xs[k] < xs[i]) - 1

\* tf.one_hot(labels, depth, dtype=tf.int32) of one label
OneHot(label, depth) == [k \in 1..depth |-> IF k - 1 = label THEN 1 ELSE 0]

\* log2(n) in units of 1/FP, linear between the powers of two
RECURSIVE Log2(_)
Log2(n) == IF n < 2 THEN 0 ELSE 1 + Log2(n \div 2)

Log2FP(n) ==
    LET k == Log2(n) IN k * FP + ((n - Pow2(k)) * FP) \div Pow2(k)

\* tf.nn.softmax_cross_entropy_with_logits of one example:
\* - sum_k labels[k] * log softmax(logits)[k], in units of ln 2 / FP
SoftmaxCrossEntropyWithLogits(labels, logits) ==
    LET lse == Log2FP(SumSeq([k \in 1..Len(logits) |-> Pow2(logits[k])]))
    IN  SumSeq([k \in 1..Len(logits) |-> labels[k] * (lse - logits[k] * FP)])

\* tf.reduce_mean over the batch
ReduceMean(xs) == SumSeq(xs) \div Len(xs)

\* tf.add_n(inputs): raises ValueError for an empty list
AddN(inputs) ==
    IF Len(inputs) = 0 THEN [raised |-> "ValueError", value |-> 0]
                       ELSE [raised |-> "", value |-> SumSeq(inputs)]

\* _build_loss(logits, labels) over a batch, with the collection of
\* regularization losses as it is when the loss is built
BuildLoss(logits, labels, num_category, reg_losses) ==
    LET onehot_labels == [b \in 1..Len(labels) |-> OneHot(labels[b], num_category)]
        cross_entropy ==
            ReduceMean([b \in 1..Len(labels) |->
                SoftmaxCrossEntropyWithLogits(onehot_labels[b], logits[b])])
        l2_loss == AddN(reg_losses)
    IN  [raised |-> l2_loss.raised,
         onehot_labels |-> onehot_labels,
         cross_entropy |-> cross_entropy,
         loss |-> cross_entropy + l2_loss.value]

\* _build_graph: the graph is built once from the configuration; a raise in
\* _build_loss leaves no model
BuildGraph(config, reg_losses) ==
    /\ cls = NoBatch
    /\ cls' = [config |-> config,
               reg_losses |-> reg_losses,
               built |-> AddN(reg_losses).raised = "",
               out |-> NoBatch]
    /\ UNCHANGED <<var_values, adam, train_step, completed, enc, viz>>
    /\ UNCHANGED run_vars

\* self.inference_probs = tf.nn.softmax(result)
InferenceProbs(result) == [b \in 1..Len(result) |-> Softmax(result[b])]

InferenceFromOne(inference_probs) ==
    [b \in 1..Len(inference_probs) |-> ArgMaxFromOne(inference_probs[b])]

\* self.inference = tf.argmax(self.inference_probs, axis=-1)
Inference(inference_probs) ==
    [b \in 1..Len(inference_probs) |-> ArgMax(inference_probs[b])]

\* a run of loss, inference_probs and inference on a batch of n examples:
\* units[b] are the last layer's values for example b, labels[b] its label
RunClassifier(n) ==
    /\ cls # NoBatch
    /\ cls.built
    /\ cls.out = NoBatch
    /\ \E units \in [1..n -> [1..cls.config.num_category -> LogitVals]],
          labels \in [1..n -> 0..(cls.config.num_category - 1)] :
          LET result == [b \in 1..n |->
                            Aggregate(MapperNumLayers(cls.config), units[b])]
              l == BuildLoss(result, labels, cls.config.num_category, cls.reg_losses)
          IN  cls' = [cls EXCEPT !.out =
                         [result |-> result,
                          labels |-> labels,
                          onehot_labels |-> l.onehot_labels,
                          cross_entropy |-> l.cross_entropy,
                          loss |-> l.loss,
                          inference_probs |-> InferenceProbs(result),
                          inference |-> Inference(InferenceProbs(result))]]
    /\ UNCHANGED <<var_values, adam, train_step, completed, enc, viz>>
    /\ UNCHANGED run_vars

ReleaseClassifier ==
    /\ cls # NoBatch
    /\ cls' = IF cls.built /\ cls.out # NoBatch THEN [cls EXCEPT !.out = NoBatch]
                                                ELSE NoBatch
    /\ UNCHANGED <<var_values, adam, train_step, completed, enc, viz>>
    /\ UNCHANGED run_vars

NextClassifier ==
    \/ \E config \in Configs, reg_losses \in RegCollections :
          BuildGraph(config, reg_losses)
    \/ \E n \in BatchSizes : RunClassifier(n)
    \/ ReleaseClassifier

SpecClassifier == Init /\ [][NextClassifier]_vars

MaxOf(xs) == CHOOSE m \in {xs[k] : k \in 1..Len(xs)} : \A k \in 1..Len(xs) : xs[k] <= m

\* C6: every example's logits have exactly num_category entries, and
\* inference is an integer in [0, num_category) that indexes a largest logit.
C6_LogitsAndInference ==
    (cls # NoBatch /\ cls.out # NoBatch) =>
        \A b \in 1..Len(cls.out.result) :
            /\ Len(cls.out.result[b]) = cls.config.num_category
            /\ Len(cls.out.inference_probs[b]) = cls.config.num_category
            /\ cls.out.inference[b] \in 0..(cls.config.num_category - 1)
            /\ cls.out.result[b][cls.out.inference[b] + 1] = MaxOf(cls.out.result[b])

\* three categories, a batch of two, the largest logit of the second example
\* in the last category and tied largest logits in the first example
C6_Witness ==
    /\ cls # NoBatch
    /\ cls.out # NoBatch
    /\ cls.config.num_category = 3
    /\ Len(cls.out.result) = 2
    /\ cls.out.inference[2] = 2
    /\ cls.out.result[1][1] < cls.out.result[1][2]
    /\ cls.out.result[1][2] = cls.out.result[1][3]
    /\ cls.out.inference[1] = 1

\* C10: for every number of registered regularization terms, none included,
\* the model is built and its total loss is the batch mean of the softmax
\* cross-entropy against the one-hot labels plus the sum of the terms (0
\* for none); the one-hot vector of a label has its only 1 at the label.
C10_TotalLoss ==
    cls # NoBatch =>
        /\ cls.built
        /\ cls.out # NoBatch =>
              /\ cls.out.loss = cls.out.cross_entropy + SumSeq(cls.reg_losses)
              /\ \A b \in 1..Len(cls.out.labels) :
                    /\ Len(cls.out.onehot_labels[b]) = cls.config.num_category
                    /\ \A k \in 1..cls.config.num_category :
                          cls.out.onehot_labels[b][k]
                              = IF k = cls.out.labels[b] + 1 THEN 1 ELSE 0

====
